---------------------------- MODULE Spec2Model ----------------------------
(***************************************************************************)
(* Model of watcher/watcher.go: the WatchHandler's correlation store       *)
(* (iwMap, hashedInstanceIDs, wlidsToContainerToImageIDMap), the pod       *)
(* pipeline (PodWatch / handlePodWatcher), the cleanup routine (cleanUp),  *)
(* the three storage handlers and the watch engines that feed them.        *)
(***************************************************************************)
EXTENDS Naturals, Sequences, FiniteSets, TLC

(***************************************************************************)
(* Bounds of the model.                                                    *)
(***************************************************************************)
\* how many times the pod watch stream may be closed by the server
MaxCloses == 2
\* how many down-notification goroutines may be pending in one engine
MaxPending == 2

(***************************************************************************)
(* Generic map helpers.  A Go map is a function whose DOMAIN is its key    *)
(* set.                                                                    *)
(***************************************************************************)
EmptyMap == [x \in {} |-> {}]

MapPut(m, k, v) == [x \in (DOMAIN m) \cup {k} |-> IF x = k THEN v ELSE m[x]]

SeqContains(s, x) == \E i \in 1..Len(s) : s[i] = x

SeqToSet(s) == {s[i] : i \in 1..Len(s)}

(***************************************************************************)
(* Identifiers.  An image reference is <<repository, digest>>; a workload  *)
(* identifier is <<kind, name>> (cluster and namespace are fixed).         *)
(***************************************************************************)
\* pkgwlid.GetWLID(cluster, namespace, kind, name)
GetWLID(kind, name) == <<kind, name>>

\* extractImageHash(imageID): the digest part of the image reference
extractImageHash(imageID) == imageID[2]

ImgA1 == <<"repo1", "sha-a">>
ImgA2 == <<"repo2", "sha-a">>
ImgB1 == <<"repo1", "sha-b">>

ImageIDs == {ImgA1, ImgA2, ImgB1}
Hashes == {extractImageHash(i) : i \in ImageIDs}

(***************************************************************************)
(* Pods as they come out of the cluster API.  owner is the answer of       *)
(* CalculateWorkloadParentRecursive (kind, name, err), parentGetOk the     *)
(* success of GetWorkload on that parent, iids / iidOk the answer of       *)
(* GenerateInstanceIDFromPod, statuses the pod's container statuses.       *)
(***************************************************************************)
MkPod(name, phase, kind, owner, err, getOk, statuses, iids, iidOk) ==
    [name |-> name, phase |-> phase,
     owner |-> [kind |-> kind, name |-> owner, err |-> err],
     statuses |-> statuses, iids |-> iids, iidOk |-> iidOk,
     parentGetOk |-> getOk]

St(img, running) == [imageID |-> img, running |-> running]

\* replica of Deployment d1 running image A
PodA == MkPod("pa", "Running", "Deployment", "d1", FALSE, TRUE,
              [c \in {"c1"} |-> St(ImgA1, TRUE)], <<"i-d1-c1">>, TRUE)
\* replica of Deployment d1 after a rolling update to image B
PodB == MkPod("pb", "Running", "Deployment", "d1", FALSE, TRUE,
              [c \in {"c1"} |-> St(ImgB1, TRUE)], <<"i-d1-c1">>, TRUE)
\* Deployment d2: digest A from another repository, second container not running
PodC == MkPod("pc", "Running", "Deployment", "d2", FALSE, TRUE,
              [c \in {"c1", "c2"} |-> IF c = "c1" THEN St(ImgA2, TRUE) ELSE St(ImgB1, FALSE)],
              <<"i-d2-c1", "i-d2-c2">>, TRUE)
\* static pod owned by its node, instance IDs cannot be generated
PodN == MkPod("pn", "Running", "Node", "n1", FALSE, TRUE,
              [c \in {"c1"} |-> St(ImgB1, TRUE)], <<>>, FALSE)
\* Running phase, but no container reports Running
PodI == MkPod("pi", "Running", "Deployment", "d3", FALSE, TRUE,
              [c \in {"c1"} |-> St(ImgA1, FALSE)], <<"i-d3-c1">>, TRUE)
\* not in Running phase
PodP == MkPod("pp", "Pending", "Deployment", "d1", FALSE, TRUE,
              [c \in {"c1"} |-> St(ImgB1, FALSE)], <<"i-d1-c1">>, TRUE)
\* the owner chain cannot be walked
PodE == MkPod("pe", "Running", "ReplicaSet", "rs9", TRUE, FALSE,
              [c \in {"c1"} |-> St(ImgB1, TRUE)], <<"i-rs9-c1">>, TRUE)

\* replica of Deployment d1 after a sidecar running image B was added to it
PodD == MkPod("pd", "Running", "Deployment", "d1", FALSE, TRUE,
              [c \in {"c1", "c2"} |-> IF c = "c1" THEN St(ImgA1, TRUE) ELSE St(ImgB1, TRUE)],
              <<"i-d1-c1", "i-d1-c2">>, TRUE)

Pods == {PodA, PodB, PodC, PodN, PodI, PodP, PodE}

\* answers of k8sAPI.ListPods
Listings == { <<>>, <<PodA, PodC>>, <<PodA, PodB, PodN>>, <<PodB, PodA, PodI, PodP, PodE>> }

\* watch.Event of the pod watch; exists is the answer of the point read
PodEv(type, pod, exists) == [type |-> type, pod |-> pod, exists |-> exists]

PodEvents == {PodEv("MODIFIED", p, TRUE) : p \in Pods}
             \cup {PodEv("MODIFIED", PodA, FALSE), PodEv("ADDED", PodA, TRUE),
                   PodEv("DELETED", PodB, TRUE)}

\* the events of the pod watch loop taken alone: those above and the events of a
\* pod that adds a container to a workload
PodWatchEvents == PodEvents \cup {PodEv("MODIFIED", PodD, TRUE)}

(***************************************************************************)
(* Commands.                                                               *)
(***************************************************************************)
\* getImageScanCommand(wlid, containerToImageIDs)
getImageScanCommand(wlid, containerToImageIDs) ==
    [wlid |-> wlid, containers |-> containerToImageIDs]


(***************************************************************************)
(* The correlation store.  A store value is [iw, ids, wc]:                 *)
(*   iw  : iwMap, image hash -> set of wlids                               *)
(*   ids : hashedInstanceIDs, a slice of hashed instance IDs               *)
(*   wc  : wlidsToContainerToImageIDMap, wlid -> container -> imageID      *)
(***************************************************************************)
MkStore(iw, ids, wc) == [iw |-> iw, ids |-> ids, wc |-> wc]

\* imageHashWLIDMap.Load: the ok result
iwLoad(iw, imageHash) == imageHash \in DOMAIN iw

\* imageHashWLIDMap.Add: the wlids are added to the hash's set, duplicates dropped
iwAdd(iw, imageHash, wlids) ==
    MapPut(iw, imageHash, (IF imageHash \in DOMAIN iw THEN iw[imageHash] ELSE {}) \cup wlids)

\* imageHashWLIDMap.Clear
iwClear(iw) == EmptyMap

addToImageIDToWlidsMap(iw, imageID, wlids) ==
    IF wlids = {} THEN iw ELSE iwAdd(iw, extractImageHash(imageID), wlids)

addToWlidsToContainerToImageIDMap(wc, wlid, containerName, imageID) ==
    MapPut(wc, wlid,
           MapPut(IF wlid \in DOMAIN wc THEN wc[wlid] ELSE EmptyMap, containerName, imageID))

\* variant: the slice is replaced by one holding the instance ID alone
addToInstanceIDsListOnly(ids, h) == <<h>>

\* variant: the instance ID is appended without looking for it in the slice
addToInstanceIDsListAlways(ids, h) == Append(ids, h)

addToInstanceIDsList(ids, h) ==
    IF ~SeqContains(ids, h) THEN Append(ids, h) ELSE ids

RECURSIVE addInstanceIDs(_, _, _)
\* for i := range instanceID { wh.addToInstanceIDsList(instanceID[i]) }
addInstanceIDs(ids, instanceID, i) ==
    IF i > Len(instanceID) THEN ids
    ELSE addInstanceIDs(addToInstanceIDsList(ids, instanceID[i]), instanceID, i + 1)

\* variant: no workload is ever found in the map
isWlidInMapNever(wc, wlid) == FALSE

isWlidInMap(wc, wlid) == wlid \in DOMAIN wc

GetContainerToImageIDForWlid(wc, wlid) ==
    IF wlid \notin DOMAIN wc THEN EmptyMap ELSE wc[wlid]

cleanUpInstanceIDs(ids) == <<>>

\* variant: the map is left as it is
cleanUpWlidsToContainerToImageIDMapKeep(wc) == wc

cleanUpWlidsToContainerToImageIDMap(wc) == EmptyMap

(***************************************************************************)
(* What is read off a pod.                                                 *)
(***************************************************************************)
RunningContainers(pod) == {c \in DOMAIN pod.statuses : pod.statuses[c].running}

\* utils.ExtractContainersToImageIDsFromPod: container -> imageID, running containers
ExtractContainersToImageIDsFromPod(pod) ==
    [c \in RunningContainers(pod) |-> pod.statuses[c].imageID]

\* extractImageIDsToContainersFromPod: imageID -> containers, running containers
extractImageIDsToContainersFromPod(pod) ==
    [img \in {pod.statuses[c].imageID : c \in RunningContainers(pod)} |->
        {c \in RunningContainers(pod) : pod.statuses[c].imageID = img}]

getNewContainerToImageIDsFromPod(iw, pod) ==
    LET imageIDsToContainers == extractImageIDsToContainersFromPod(pod)
        isNew(c) == \E imageID \in DOMAIN imageIDsToContainers :
                        /\ c \in imageIDsToContainers[imageID]
                        /\ ~iwLoad(iw, extractImageHash(imageID))
    IN [c \in {c \in RunningContainers(pod) : isNew(c)} |->
           CHOOSE imageID \in DOMAIN imageIDsToContainers : c \in imageIDsToContainers[imageID]]

\* variant: the pod is not looked up again
getPodFromEventIfRunningNoGet(event) ==
    /\ event.type = "MODIFIED"
    /\ event.pod.phase = "Running"

getPodFromEventIfRunning(event) ==
    /\ event.type = "MODIFIED"
    /\ event.pod.phase = "Running"
    /\ event.exists

\* getParentIDForPod: [err, wlid]
getParentIDForPod(pod) ==
    [err |-> pod.owner.err, wlid |-> GetWLID(pod.owner.kind, pod.owner.name)]

\* getParentWorkloadForPod followed by GetWLID of the workload found: [err, wlid]
getParentWorkloadForPod(pod) ==
    IF pod.owner.kind = "Node" THEN [err |-> FALSE, wlid |-> GetWLID("Pod", pod.name)]
    ELSE IF pod.owner.err THEN [err |-> TRUE, wlid |-> GetWLID("Pod", pod.name)]
    ELSE IF ~pod.parentGetOk THEN [err |-> TRUE, wlid |-> GetWLID("Pod", pod.name)]
    ELSE [err |-> FALSE, wlid |-> GetWLID(pod.owner.kind, pod.owner.name)]

RECURSIVE registerContainers(_, _, _, _, _)
\* for container, imgID := range m { [addToImageIDToWlidsMap;] addToWlidsToContainerToImageIDMap }
registerContainers(s, wlid, m, todo, withImages) ==
    IF todo = {} THEN s
    ELSE LET c == CHOOSE x \in todo : TRUE
             iw2 == IF withImages THEN addToImageIDToWlidsMap(s.iw, m[c], {wlid}) ELSE s.iw
             wc2 == addToWlidsToContainerToImageIDMap(s.wc, wlid, c, m[c])
         IN registerContainers(MkStore(iw2, s.ids, wc2), wlid, m, todo \ {c}, withImages)

(***************************************************************************)
(* handlePodWatcher, one received event: the store afterwards and the      *)
(* commands handed to utils.AddCommandToChannel.                           *)
(***************************************************************************)
PodResult(s, cmds) == [cmds |-> cmds, store |-> s]

\* lines 705-717: generate instance IDs, save them, add the command to the channel
recordInstanceIDsAndSend(s, pod, cmd) ==
    IF ~pod.iidOk THEN PodResult(s, <<>>)
    ELSE PodResult(MkStore(s.iw, addInstanceIDs(s.ids, pod.iids, 1), s.wc), <<cmd>>)

handlePodEvent(s, event) ==
    LET pod == event.pod
        parent == getParentIDForPod(pod)
        parentWlid == parent.wlid
        newContainersToImageIDs == getNewContainerToImageIDsFromPod(s.iw, pod)
        containersToImageIds == ExtractContainersToImageIDsFromPod(pod)
    IN IF ~getPodFromEventIfRunning(event) THEN PodResult(s, <<>>)
       ELSE IF parent.err THEN PodResult(s, <<>>)
       ELSE IF DOMAIN newContainersToImageIDs # {}
            THEN recordInstanceIDsAndSend(
                     registerContainers(s, parentWlid, newContainersToImageIDs,
                                        DOMAIN newContainersToImageIDs, TRUE),
                     pod, getImageScanCommand(parentWlid, newContainersToImageIDs))
       ELSE IF isWlidInMap(s.wc, parentWlid) THEN PodResult(s, <<>>)
       ELSE recordInstanceIDsAndSend(
                registerContainers(s, parentWlid, containersToImageIds,
                                   DOMAIN containersToImageIds, FALSE),
                pod, getImageScanCommand(parentWlid, containersToImageIds))

(***************************************************************************)
(* buildIDs.                                                               *)
(***************************************************************************)
\* one iteration of the loop over podList.Items
buildIDsPod(s, pod) ==
    LET parent == getParentWorkloadForPod(pod)
        imgIDsToContainers == ExtractContainersToImageIDsFromPod(pod)
    IN IF pod.phase # "Running" THEN s
       ELSE IF RunningContainers(pod) = {} THEN s
       ELSE IF parent.err THEN s
       ELSE IF ~pod.iidOk THEN s
       ELSE registerContainers(MkStore(s.iw, addInstanceIDs(s.ids, pod.iids, 1), s.wc),
                               parent.wlid, imgIDsToContainers,
                               DOMAIN imgIDsToContainers, TRUE)

RECURSIVE buildIDs(_, _, _)
buildIDs(s, podList, i) ==
    IF i > Len(podList) THEN s ELSE buildIDs(buildIDsPod(s, podList[i]), podList, i + 1)

\* NewWatchHandler: empty maps, then buildIDs over the first listing
NewWatchHandler(podsList) == buildIDs(MkStore(EmptyMap, <<>>, EmptyMap), podsList, 1)


(***************************************************************************)
(* The storage handlers.  An event of a storage watch is                   *)
(* [type, supported, name, withRelevancy, ann]: supported is the outcome   *)
(* of the type assertion on e.Object, name the object's name, ann the      *)
(* lookup of the wlid annotation ([ok, wlid]).  One loop iteration yields  *)
(* the storage deletes it issued, the error it sends on errorCh and the    *)
(* command it sends on producedCommands.                                   *)
(***************************************************************************)
StorageEv(type, supported, name, withRelevancy, ann) ==
    [name |-> name, type |-> type, supported |-> supported,
     withRelevancy |-> withRelevancy, ann |-> ann]

NoAnnotation == [wlid |-> GetWLID("", ""), ok |-> FALSE]
Annotation(wlid) == [wlid |-> wlid, ok |-> TRUE]

EventTypes == {"ADDED", "MODIFIED", "DELETED"}

\* events whose object is not of the watched kind
UnsupportedEvents == {StorageEv(t, FALSE, "", FALSE, NoAnnotation) : t \in EventTypes}

SBOMEvents ==
    {StorageEv(t, TRUE, n, FALSE, NoAnnotation) : t \in EventTypes, n \in {"sha-a", "sha-x"}}
    \cup UnsupportedEvents

SBOMFilteredEvents ==
    {StorageEv(t, TRUE, n, FALSE, a) :
        t \in EventTypes, n \in {"i-d1-c1", "i-x"},
        a \in {NoAnnotation, Annotation(GetWLID("Deployment", "d1")),
               Annotation(GetWLID("Deployment", "d9"))}}
    \cup UnsupportedEvents

VulnerabilityManifestEvents ==
    {StorageEv(t, TRUE, n, r, NoAnnotation) :
        t \in EventTypes, n \in {"sha-a", "i-d1-c1", "sha-x"}, r \in BOOLEAN}
    \cup UnsupportedEvents

Kinds == {"SBOM", "SBOMFiltered", "VulnerabilityManifest"}

EventsOf(k) ==
    IF k = "SBOM" THEN SBOMEvents
    ELSE IF k = "SBOMFiltered" THEN SBOMFilteredEvents
    ELSE VulnerabilityManifestEvents

\* what one iteration of a handler's loop did: the names it called the storage
\* Delete for, those of them whose Delete returned an error, the errors it sent on
\* errorCh, the commands it sent on producedCommands
HandlerResult(deletes, failed, errs, cmds) ==
    [cmds |-> cmds, deletes |-> deletes, failed |-> failed, errs |-> errs]

\* the names whose Delete returned an error
Failed(name, deleteErr) == IF deleteErr THEN <<name>> ELSE <<>>

NoResult == HandlerResult(<<>>, <<>>, <<>>, <<>>)

\* variant: the two lookups are swapped
HandleVulnerabilityManifestEventsSwapped(s, e, deleteErr) ==
    IF e.type = "DELETED" THEN NoResult
    ELSE IF ~e.supported THEN HandlerResult(<<>>, <<>>, <<"ErrUnsupportedObject">>, <<>>)
    ELSE LET hasObject == IF e.withRelevancy THEN iwLoad(s.iw, e.name)
                          ELSE SeqContains(s.ids, e.name)
         IN IF ~hasObject THEN HandlerResult(<<e.name>>, Failed(e.name, deleteErr), <<>>, <<>>) ELSE NoResult

\* one iteration of the loop of HandleVulnerabilityManifestEvents; deleteErr: the
\* storage delete fails (its result is not read)
HandleVulnerabilityManifestEvents(s, e, deleteErr) ==
    IF e.type = "DELETED" THEN NoResult
    ELSE IF ~e.supported THEN HandlerResult(<<>>, <<>>, <<"ErrUnsupportedObject">>, <<>>)
    ELSE LET hasObject == IF e.withRelevancy THEN SeqContains(s.ids, e.name)
                          ELSE iwLoad(s.iw, e.name)
         IN IF ~hasObject THEN HandlerResult(<<e.name>>, Failed(e.name, deleteErr), <<>>, <<>>) ELSE NoResult

\* variant: the annotation is read before the instance ID is looked up
HandleSBOMFilteredEventsAnnotationFirst(s, e, deleteErr) ==
    IF ~e.supported THEN HandlerResult(<<>>, <<>>, <<"ErrUnsupportedObject">>, <<>>)
    ELSE IF e.type = "DELETED" THEN NoResult
    ELSE IF ~e.ann.ok THEN HandlerResult(<<>>, <<>>, <<"ErrMissingWLIDAnnotation">>, <<>>)
    ELSE IF ~SeqContains(s.ids, e.name) THEN HandlerResult(<<e.name>>, Failed(e.name, deleteErr), <<>>, <<>>)
    ELSE HandlerResult(<<>>, <<>>, <<>>,
             <<getImageScanCommand(e.ann.wlid, GetContainerToImageIDForWlid(s.wc, e.ann.wlid))>>)

\* one iteration of the loop of HandleSBOMFilteredEvents; deleteErr: the storage
\* delete fails (its result is not read)
HandleSBOMFilteredEvents(s, e, deleteErr) ==
    IF ~e.supported THEN HandlerResult(<<>>, <<>>, <<"ErrUnsupportedObject">>, <<>>)
    ELSE IF e.type = "DELETED" THEN NoResult
    ELSE IF ~SeqContains(s.ids, e.name) THEN HandlerResult(<<e.name>>, Failed(e.name, deleteErr), <<>>, <<>>)
    ELSE IF ~e.ann.ok THEN HandlerResult(<<>>, <<>>, <<"ErrMissingWLIDAnnotation">>, <<>>)
    ELSE HandlerResult(<<>>, <<>>, <<>>,
             <<getImageScanCommand(e.ann.wlid, GetContainerToImageIDForWlid(s.wc, e.ann.wlid))>>)

\* variant: Deleted events are handled like the others
HandleSBOMEventsDeleted(s, e, deleteErr) ==
    IF ~e.supported THEN HandlerResult(<<>>, <<>>, <<"ErrUnsupportedObject">>, <<>>)
    ELSE IF ~iwLoad(s.iw, e.name)
         THEN HandlerResult(<<e.name>>, Failed(e.name, deleteErr),
                            IF deleteErr THEN <<"delete failed">> ELSE <<>>, <<>>)
    ELSE NoResult

\* one iteration of the loop of HandleSBOMEvents; deleteErr: the storage delete fails
HandleSBOMEvents(s, e, deleteErr) ==
    IF ~e.supported THEN HandlerResult(<<>>, <<>>, <<"ErrUnsupportedObject">>, <<>>)
    ELSE IF e.type = "DELETED" THEN NoResult
    ELSE IF ~iwLoad(s.iw, e.name)
         THEN HandlerResult(<<e.name>>, Failed(e.name, deleteErr),
                            IF deleteErr THEN <<"delete failed">> ELSE <<>>, <<>>)
    ELSE NoResult

HandleEvents(k, s, e, deleteErr) ==
    IF k = "SBOM" THEN HandleSBOMEvents(s, e, deleteErr)
    ELSE IF k = "SBOMFiltered" THEN HandleSBOMFilteredEvents(s, e, deleteErr)
    ELSE HandleVulnerabilityManifestEvents(s, e, deleteErr)

(***************************************************************************)
(* State.                                                                  *)
(***************************************************************************)
VARIABLES
    iwMap,                          \* wh.iwMap
    hashedInstanceIDs,              \* wh.hashedInstanceIDs
    wlidsToContainerToImageIDMap,   \* wh.wlidsToContainerToImageIDMap
    currentPodListResourceVersion,  \* wh.currentPodListResourceVersion
    podPc,                          \* where PodWatch stands
    podsWatch,                      \* the pod watcher: [state, rv]
    cleanPc,                        \* where the cleanup routine stands
    podsList,                       \* cleanUp's podsList
    cleanIdx,                       \* buildIDs' index into podsList.Items
    lastOp,                         \* the step taken last: the event it handled and the
                                    \* commands it handed to utils.AddCommandToChannel
    cycleWrites,                    \* observation: the <<wlid, container, imageID>> the pod
                                    \* pipeline wrote while buildIDs of the current cycle runs
    kind,                           \* which storage watch the engine below is
    watcher,                        \* the engine's watcher: "nil" or "set"
    eventsCh,                       \* the channel the engine reads events from:
                                    \* "never" (make(<-chan)), "open", "closed"
    pending,                        \* goroutines blocked sending on watcherUnavailable
    engPc,                          \* the engine: "select" or "inputEvents<-"
    engEvent,                       \* the event the engine is forwarding
    hPc,                            \* the handler: "range", "errorCh<-", "producedCommands<-"
    hEvent,                         \* the event of the handler's current iteration
    hResult,                        \* what that iteration did
    instanceIDsMutex,               \* wh.instanceIDsMutex: [w: the task holding the write
                                    \* lock or "none", r: the tasks holding a read lock]
    idsAccess                       \* for each task, the access to wh.hashedInstanceIDs
                                    \* it is in the middle of

\* the goroutines that access wh.hashedInstanceIDs
Tasks == {"handlePodWatcher", "cleanUp", "HandleVulnerabilityManifestEvents",
          "HandleSBOMFilteredEvents"}

\* an access to wh.hashedInstanceIDs: what is done, and the hashed ID it is done with
Access(op, h) == [h |-> h, op |-> op]

NoAccess == Access("none", "")

storeVars == <<iwMap, hashedInstanceIDs, wlidsToContainerToImageIDMap>>
podVars == <<currentPodListResourceVersion, podPc, podsWatch>>
cleanVars == <<cleanPc, podsList, cleanIdx>>
engVars == <<kind, watcher, eventsCh, pending, engPc, engEvent, hPc, hEvent, hResult>>
lockVars == <<instanceIDsMutex, idsAccess>>
vars == <<storeVars, podVars, cleanVars, lastOp, cycleWrites, engVars, lockVars>>

Store == MkStore(iwMap, hashedInstanceIDs, wlidsToContainerToImageIDMap)

SetStore(s) ==
    /\ iwMap' = s.iw
    /\ hashedInstanceIDs' = s.ids
    /\ wlidsToContainerToImageIDMap' = s.wc

NoEvent == [type |-> "NONE"]

Op(op, ev, again, cmds) == [cmds |-> cmds, op |-> op, ev |-> ev, again |-> again]

\* a step of the pod watch loop that handles no pod event
OtherOp == Op("other", NoEvent, FALSE, <<>>)

\* the state NewWatchHandler returns, and every task at its start
InitHandler ==
    /\ \E first \in Listings : \E s \in {NewWatchHandler(first)} :
          /\ iwMap = s.iw
          /\ hashedInstanceIDs = s.ids
          /\ wlidsToContainerToImageIDMap = s.wc
    /\ currentPodListResourceVersion = 0
    /\ podPc = "getPodWatcher"
    /\ podsWatch = [state |-> "nil", rv |-> 0]
    /\ cleanPc = "sleep"
    /\ podsList = <<>>
    /\ cleanIdx = 1
    /\ lastOp = Op("NewWatchHandler", NoEvent, FALSE, <<>>)
    /\ cycleWrites = {}
    /\ watcher = "nil"
    /\ eventsCh = "never"
    /\ pending = 1
    /\ engPc = "select"
    /\ engEvent = NoEvent
    /\ hPc = "range"
    /\ hEvent = NoEvent
    /\ hResult = NoResult
    /\ instanceIDsMutex = [r |-> {}, w |-> "none"]
    /\ idsAccess = [t \in Tasks |-> NoAccess]

Init == InitHandler /\ kind = "SBOM"

(***************************************************************************)
(* PodWatch and handlePodWatcher.                                          *)
(***************************************************************************)
\* the (wlid, container, imageID) entries that differ from before
WrittenContainers(before, after) ==
    UNION { { <<w, c, after[w][c]>> :
                c \in {c \in DOMAIN after[w] : \/ w \notin DOMAIN before
                                               \/ c \notin DOMAIN before[w]
                                               \/ before[w][c] # after[w][c]} } :
            w \in DOMAIN after }

\* PodWatch: getPodWatcher succeeds and handlePodWatcher is entered
GetPodWatcherOk ==
    /\ podPc = "getPodWatcher"
    /\ podsWatch' = [state |-> "open", rv |-> currentPodListResourceVersion]
    /\ podPc' = "handlePodWatcher"
    /\ lastOp' = OtherOp
    /\ UNCHANGED <<storeVars, currentPodListResourceVersion, cleanVars, cycleWrites, engVars, lockVars>>

\* PodWatch: getPodWatcher fails, sleep retryInterval, continue
GetPodWatcherErr ==
    /\ podPc = "getPodWatcher"
    /\ lastOp' = OtherOp
    /\ UNCHANGED <<storeVars, podVars, cleanVars, cycleWrites, engVars, lockVars>>

\* handlePodWatcher: one event received from podsWatch.ResultChan()
HandlePodWatcherEvent(event) ==
    /\ podPc = "handlePodWatcher"
    /\ LET r == handlePodEvent(Store, event)
       IN /\ SetStore(r.store)
          /\ lastOp' = Op("handlePodWatcher", event,
                          lastOp.op = "handlePodWatcher" /\ lastOp.ev = event, r.cmds)
    /\ cycleWrites' = IF cleanPc = "buildIDs"
                      THEN cycleWrites \cup WrittenContainers(wlidsToContainerToImageIDMap,
                                                              wlidsToContainerToImageIDMap')
                      ELSE {}
    /\ UNCHANGED <<podVars, cleanVars, engVars, lockVars>>

\* updateResourceVersion: the new version, or the old one when ListPods fails
updateResourceVersion(rv, listOk) == IF listOk THEN rv + 1 ELSE rv

\* handlePodWatcher: the result channel is closed; restartResourceVersion, return
HandlePodWatcherClosed(listOk) ==
    /\ podPc = "handlePodWatcher"
    /\ currentPodListResourceVersion < MaxCloses
    /\ podsWatch' = [podsWatch EXCEPT !.state = "stopped"]
    /\ currentPodListResourceVersion' =
           updateResourceVersion(currentPodListResourceVersion, listOk)
    /\ podPc' = "getPodWatcher"
    /\ lastOp' = OtherOp
    /\ UNCHANGED <<storeVars, cleanVars, cycleWrites, engVars, lockVars>>

(***************************************************************************)
(* startCleanUpAndTriggerScanRoutine / cleanUp.                            *)
(***************************************************************************)
\* cleanUp: ListPods succeeds
CleanUpListPods(list) ==
    /\ cleanPc = "sleep"
    /\ podsList' = list
    /\ cleanIdx' = 1
    /\ cleanPc' = "iwMap.Clear"
    /\ lastOp' = Op("ListPods", NoEvent, FALSE, <<>>)
    /\ UNCHANGED <<storeVars, podVars, cycleWrites, engVars, lockVars>>

\* cleanUp without the return on a failed listing: the cycle goes on to cleanUpIDs
\* and buildIDs with the empty list
CleanUpListPodsErrReset ==
    /\ cleanPc = "sleep"
    /\ podsList' = <<>>
    /\ cleanIdx' = 1
    /\ cleanPc' = "iwMap.Clear"
    /\ lastOp' = Op("ListPodsErr", NoEvent, FALSE, <<>>)
    /\ UNCHANGED <<storeVars, podVars, cycleWrites, engVars, lockVars>>

\* cleanUp: ListPods fails, return
CleanUpListPodsErr ==
    /\ cleanPc = "sleep"
    /\ lastOp' = Op("ListPodsErr", NoEvent, FALSE, <<>>)
    /\ UNCHANGED <<storeVars, podVars, cleanVars, cycleWrites, engVars, lockVars>>

\* cleanUpIDs: wh.iwMap.Clear()
CleanUpIDsImageHashes ==
    /\ cleanPc = "iwMap.Clear"
    /\ iwMap' = iwClear(iwMap)
    /\ cleanPc' = "cleanUpInstanceIDs"
    /\ lastOp' = Op("iwMap.Clear", NoEvent, FALSE, <<>>)
    /\ UNCHANGED <<hashedInstanceIDs, wlidsToContainerToImageIDMap, podVars, podsList,
                   cleanIdx, cycleWrites, engVars, lockVars>>

\* cleanUpIDs: wh.cleanUpInstanceIDs()
CleanUpIDsInstanceIDs ==
    /\ cleanPc = "cleanUpInstanceIDs"
    /\ hashedInstanceIDs' = cleanUpInstanceIDs(hashedInstanceIDs)
    /\ cleanPc' = "cleanUpWlidsToContainerToImageIDMap"
    /\ lastOp' = Op("cleanUpInstanceIDs", NoEvent, FALSE, <<>>)
    /\ UNCHANGED <<iwMap, wlidsToContainerToImageIDMap, podVars, podsList, cleanIdx,
                   cycleWrites, engVars, lockVars>>

\* cleanUpIDs: wh.cleanUpWlidsToContainerToImageIDMap()
CleanUpIDsWlids ==
    /\ cleanPc = "cleanUpWlidsToContainerToImageIDMap"
    /\ wlidsToContainerToImageIDMap' =
           cleanUpWlidsToContainerToImageIDMap(wlidsToContainerToImageIDMap)
    /\ cleanPc' = "buildIDs"
    /\ lastOp' = Op("cleanUpWlidsToContainerToImageIDMap", NoEvent, FALSE, <<>>)
    /\ UNCHANGED <<iwMap, hashedInstanceIDs, podVars, podsList, cleanIdx, cycleWrites,
                   engVars, lockVars>>

\* buildIDs: one pod of the listing
BuildIDsPod ==
    /\ cleanPc = "buildIDs"
    /\ cleanIdx <= Len(podsList)
    /\ SetStore(buildIDsPod(Store, podsList[cleanIdx]))
    /\ cleanIdx' = cleanIdx + 1
    /\ lastOp' = Op("buildIDs", NoEvent, FALSE, <<>>)
    /\ UNCHANGED <<podVars, cleanPc, podsList, cycleWrites, engVars, lockVars>>

\* buildIDs and cleanUp return; the routine sleeps again
CleanUpReturn ==
    /\ cleanPc = "buildIDs"
    /\ cleanIdx > Len(podsList)
    /\ cleanPc' = "sleep"
    /\ podsList' = <<>>
    /\ cleanIdx' = 1
    /\ cycleWrites' = {}
    /\ lastOp' = Op("cleanUpReturn", NoEvent, FALSE, <<>>)
    /\ UNCHANGED <<storeVars, podVars, engVars, lockVars>>

\* the pod pipeline while its stream stays open, and the cleanup routine
Next ==
    \/ GetPodWatcherOk
    \/ GetPodWatcherErr
    \/ \E event \in PodEvents : HandlePodWatcherEvent(event)
    \/ \E list \in Listings : CleanUpListPods(list)
    \/ CleanUpListPodsErr
    \/ CleanUpIDsImageHashes
    \/ CleanUpIDsInstanceIDs
    \/ CleanUpIDsWlids
    \/ BuildIDsPod
    \/ CleanUpReturn

Spec == Init /\ [][Next]_vars

\* the pod watch loop with its stream closing, without the cleanup routine
PodWatchNext ==
    \/ GetPodWatcherOk
    \/ GetPodWatcherErr
    \/ \E event \in PodWatchEvents : HandlePodWatcherEvent(event)
    \/ \E listOk \in BOOLEAN : HandlePodWatcherClosed(listOk)

PodWatchSpec == Init /\ [][PodWatchNext]_vars


(***************************************************************************)
(* The watch engines SBOMWatch, SBOMFilteredWatch and                      *)
(* VulnerabilityManifestWatch (the same loop, kind says which) with the    *)
(* handler goroutine each starts.  inputEvents, errorCh and the command    *)
(* channel are unbuffered: a send and its receive are one step.  The       *)
(* handler never returns (inputEvents is never closed), so errorCh and the *)
(* command channel are never closed.                                       *)
(***************************************************************************)
engFrame == UNCHANGED <<storeVars, podVars, cleanVars, cycleWrites, kind, lockVars>>

EngOp(op, cmds) == Op(op, NoEvent, FALSE, cmds)

\* notifyWatcherDown: one more goroutine sends on watcherUnavailable; sleep retryInterval
notifyWatcherDown(n) == n + 1

\* case event, ok := <-events, ok: the engine goes on to send it on inputEvents
EngineReceiveEvent(event) ==
    /\ engPc = "select"
    /\ eventsCh = "open"
    /\ engPc' = "inputEvents<-"
    /\ engEvent' = event
    /\ lastOp' = EngOp("receiveEvent", <<>>)
    /\ UNCHANGED <<watcher, eventsCh, pending, hPc, hEvent, hResult>>
    /\ engFrame

\* inputEvents <- event meets the handler's range: the handler runs one iteration
\* up to its next channel operation
EngineForwardEvent(deleteErr) ==
    /\ engPc = "inputEvents<-"
    /\ hPc = "range"
    /\ LET r == HandleEvents(kind, Store, engEvent, deleteErr)
       IN /\ hResult' = r
          /\ hPc' = IF r.errs # <<>> THEN "errorCh<-"
                    ELSE IF r.cmds # <<>> THEN "producedCommands<-"
                    ELSE "range"
    /\ hEvent' = engEvent
    /\ engPc' = "select"
    /\ engEvent' = NoEvent
    /\ lastOp' = EngOp("forwardEvent", <<>>)
    /\ UNCHANGED <<watcher, eventsCh, pending>>
    /\ engFrame

\* case event, ok := <-events, !ok: the channel is closed
EngineEventsClosed ==
    /\ engPc = "select"
    /\ eventsCh = "closed"
    /\ pending < MaxPending
    /\ pending' = notifyWatcherDown(pending)
    /\ lastOp' = EngOp("eventsClosed", <<>>)
    /\ UNCHANGED <<watcher, eventsCh, engPc, engEvent, hPc, hEvent, hResult>>
    /\ engFrame

\* case cmd, ok := <-cmdCh, ok: utils.AddCommandToChannel
EngineReceiveCommand ==
    /\ engPc = "select"
    /\ hPc = "producedCommands<-"
    /\ hPc' = "range"
    /\ lastOp' = EngOp("AddCommandToChannel", hResult.cmds)
    /\ UNCHANGED <<watcher, eventsCh, pending, engPc, engEvent, hEvent, hResult>>
    /\ engFrame

\* case err, ok := <-errorCh, ok: the error is logged
EngineReceiveError ==
    /\ engPc = "select"
    /\ hPc = "errorCh<-"
    /\ hPc' = "range"
    /\ lastOp' = EngOp("logError", <<>>)
    /\ UNCHANGED <<watcher, eventsCh, pending, engPc, engEvent, hEvent, hResult>>
    /\ engFrame

\* watcher.Stop() closes the result channel of an open watcher
StopWatcher(ch) == IF ch = "open" THEN "closed" ELSE ch

\* case <-watcherUnavailable: stop the old watcher, subscribe, subscription opened
EngineSubscribeOk ==
    /\ engPc = "select"
    /\ pending > 0
    /\ pending' = pending - 1
    /\ watcher' = "set"
    /\ eventsCh' = "open"
    /\ lastOp' = EngOp("getWatcher", <<>>)
    /\ UNCHANGED <<engPc, engEvent, hPc, hEvent, hResult>>
    /\ engFrame

\* case <-watcherUnavailable: stop the old watcher, subscribe, the subscribe fails
EngineSubscribeErr ==
    /\ engPc = "select"
    /\ pending > 0
    /\ pending' = notifyWatcherDown(pending - 1)
    /\ watcher' = "nil"
    /\ eventsCh' = IF watcher # "nil" THEN StopWatcher(eventsCh) ELSE eventsCh
    /\ lastOp' = EngOp("getWatcher", <<>>)
    /\ UNCHANGED <<engPc, engEvent, hPc, hEvent, hResult>>
    /\ engFrame

\* the server ends the stream: the watcher's result channel is closed
StreamClosed ==
    /\ eventsCh = "open"
    /\ eventsCh' = "closed"
    /\ lastOp' = EngOp("streamClosed", <<>>)
    /\ UNCHANGED <<watcher, pending, engPc, engEvent, hPc, hEvent, hResult>>
    /\ engFrame

EngineStep ==
    \/ \E event \in EventsOf(kind) : EngineReceiveEvent(event)
    \/ \E deleteErr \in BOOLEAN : EngineForwardEvent(deleteErr)
    \/ EngineEventsClosed
    \/ EngineReceiveCommand
    \/ EngineReceiveError
    \/ EngineSubscribeOk
    \/ EngineSubscribeErr

EngineNext == EngineStep \/ StreamClosed

EngineInit == InitHandler /\ kind \in Kinds

EngineSpec == EngineInit /\ [][EngineNext]_vars

\* the Go scheduler runs a goroutine that can take a step
FairEngineSpec == EngineSpec /\ WF_vars(EngineStep)


(***************************************************************************)
(* Properties of the pod pipeline and of the cleanup routine.              *)
(***************************************************************************)
\* the step just taken handled a pod event
PodStep == lastOp'.op = "handlePodWatcher"

\* the event is a Modified event of an existing pod in Running phase
PassesFilter(e) == e.type = "MODIFIED" /\ e.exists /\ e.pod.phase = "Running"

\* the workload the pod pipeline resolves the pod to
PipelineWlid(pod) == <<pod.owner.kind, pod.owner.name>>

\* the running containers of pod whose image hash is not a key of iw
NewContainers(pod, iw) ==
    {c \in DOMAIN pod.statuses :
        pod.statuses[c].running /\ pod.statuses[c].imageID[2] \notin DOMAIN iw}

\* the command {wlid, containers: c -> image of c in pod, for c in cs}
CommandFor(pod, cs) ==
    [wlid |-> PipelineWlid(pod), containers |-> [c \in cs |-> pod.statuses[c].imageID]]

\* after the step, every container of cs is registered with its image under the
\* pod's workload, and the workload under the image's hash
RegisteredAfter(pod, cs) ==
    \A c \in cs :
        /\ PipelineWlid(pod) \in DOMAIN wlidsToContainerToImageIDMap'
        /\ c \in DOMAIN wlidsToContainerToImageIDMap'[PipelineWlid(pod)]
        /\ wlidsToContainerToImageIDMap'[PipelineWlid(pod)][c] = pod.statuses[c].imageID
        /\ pod.statuses[c].imageID[2] \in DOMAIN iwMap'
        /\ PipelineWlid(pod) \in iwMap'[pod.statuses[c].imageID[2]]

\* C1 (as claimed): handling a Modified event of an existing Running pod, with a
\* resolvable parent, that runs a container whose image hash is not in iwMap pushes
\* exactly one command for the parent workload, covering exactly the new
\* (container, image) pairs, and registers those pairs in both indices.
C1_NewImageTrigger ==
    [][ (/\ PodStep
         /\ PassesFilter(lastOp'.ev)
         /\ ~lastOp'.ev.pod.owner.err
         /\ NewContainers(lastOp'.ev.pod, iwMap) # {})
        => /\ lastOp'.cmds =
                 <<CommandFor(lastOp'.ev.pod, NewContainers(lastOp'.ev.pod, iwMap))>>
           /\ RegisteredAfter(lastOp'.ev.pod, NewContainers(lastOp'.ev.pod, iwMap)) ]_vars

\* C1, what the code does: the pairs are always registered, and the command is
\* pushed when the pod's instance IDs can be generated, and only then.
C1_TriggerWhenInstanceIDs ==
    [][ (/\ PodStep
         /\ PassesFilter(lastOp'.ev)
         /\ ~lastOp'.ev.pod.owner.err
         /\ NewContainers(lastOp'.ev.pod, iwMap) # {})
        => /\ RegisteredAfter(lastOp'.ev.pod, NewContainers(lastOp'.ev.pod, iwMap))
           /\ lastOp'.cmds =
                 IF lastOp'.ev.pod.iidOk
                 THEN <<CommandFor(lastOp'.ev.pod, NewContainers(lastOp'.ev.pod, iwMap))>>
                 ELSE <<>> ]_vars

\* C3: handling a Modified pod event a second time, right after handling it,
\* leaves iwMap, hashedInstanceIDs and wlidsToContainerToImageIDMap as the first
\* handling left them.
C3_Idempotent ==
    [][ (/\ PodStep
         /\ lastOp.op = "handlePodWatcher"
         /\ lastOp'.ev = lastOp.ev
         /\ lastOp.ev.type = "MODIFIED")
        => storeVars' = storeVars ]_vars

\* C3 happens: an event that passed the filter and registered its workload and
\* instance IDs has just been handled for the second time in a row.
C3_Witness ==
    /\ lastOp.op = "handlePodWatcher"
    /\ lastOp.again
    /\ PassesFilter(lastOp.ev)
    /\ ~lastOp.ev.pod.owner.err
    /\ PipelineWlid(lastOp.ev.pod) \in DOMAIN wlidsToContainerToImageIDMap
    /\ \A i \in 1..Len(lastOp.ev.pod.iids) :
          SeqContains(hashedInstanceIDs, lastOp.ev.pod.iids[i])
    /\ lastOp.ev.pod.iids # <<>>

\* C7: handling a pod event whose running containers' images are all keys of iwMap
\* and whose parent workload is a key of wlidsToContainerToImageIDMap pushes no
\* command.
C7_NoOpOnKnownState ==
    [][ (/\ PodStep
         /\ NewContainers(lastOp'.ev.pod, iwMap) = {}
         /\ PipelineWlid(lastOp'.ev.pod) \in DOMAIN wlidsToContainerToImageIDMap)
        => lastOp'.cmds = <<>> ]_vars

\* C7 happens: an event of a registered workload with running containers, all of
\* known images, has just been handled again and pushed nothing.
C7_Witness ==
    /\ lastOp.op = "handlePodWatcher"
    /\ lastOp.again
    /\ PassesFilter(lastOp.ev)
    /\ ~lastOp.ev.pod.owner.err
    /\ \E c \in DOMAIN lastOp.ev.pod.statuses : lastOp.ev.pod.statuses[c].running
    /\ NewContainers(lastOp.ev.pod, iwMap) = {}
    /\ PipelineWlid(lastOp.ev.pod) \in DOMAIN wlidsToContainerToImageIDMap
    /\ lastOp.cmds = <<>>

\* buildIDs has gone through the whole listing: the cleanup cycle completes
CycleComplete == cleanPc = "buildIDs" /\ cleanIdx > Len(podsList)

\* the workload the cleanup routine resolves the pod to (a node-owned pod is its
\* own workload)
CleanupWlid(pod) ==
    IF pod.owner.kind = "Node" THEN <<"Pod", pod.name>>
    ELSE <<pod.owner.kind, pod.owner.name>>

ParentResolves(pod) ==
    pod.owner.kind = "Node" \/ (~pod.owner.err /\ pod.parentGetOk)

\* the pods of the cycle's listing in Running phase whose parent workload resolves
ListedRunning == {podsList[i] : i \in {j \in 1..Len(podsList) :
                     podsList[j].phase = "Running" /\ ParentResolves(podsList[j])}}

\* those of them buildIDs registers: a running container, instance IDs generated
ListedRegistered ==
    {pod \in ListedRunning :
        pod.iidOk /\ \E c \in DOMAIN pod.statuses : pod.statuses[c].running}

\* C4 (as claimed): when a cleanup cycle completes, the (container, image) pairs
\* of every Running pod of its listing are in wlidsToContainerToImageIDMap under
\* the pod's parent workload, and every workload of the map has a pod in the
\* listing.
C4_PostCleanup ==
    CycleComplete =>
        /\ \A pod \in ListedRunning : \A c \in DOMAIN pod.statuses :
              pod.statuses[c].running =>
                 /\ CleanupWlid(pod) \in DOMAIN wlidsToContainerToImageIDMap
                 /\ c \in DOMAIN wlidsToContainerToImageIDMap[CleanupWlid(pod)]
                 /\ wlidsToContainerToImageIDMap[CleanupWlid(pod)][c]
                       = pod.statuses[c].imageID
        /\ \A w \in DOMAIN wlidsToContainerToImageIDMap :
              \E pod \in ListedRunning : CleanupWlid(pod) = w

\* C4 (amended): when a cleanup cycle completes, every running container of every
\* listed pod that buildIDs registers is a key of the map under the pod's parent
\* workload, holding the image a registered listed pod of that workload has for
\* that container or one the pod pipeline wrote during the rebuild; and every
\* workload of the map is the parent of a registered listed pod or was written by
\* the pod pipeline during the rebuild.
C4_PostCleanupRegistered ==
    CycleComplete =>
        /\ \A pod \in ListedRegistered : \A c \in DOMAIN pod.statuses :
              pod.statuses[c].running =>
                 /\ CleanupWlid(pod) \in DOMAIN wlidsToContainerToImageIDMap
                 /\ c \in DOMAIN wlidsToContainerToImageIDMap[CleanupWlid(pod)]
                 /\ \/ \E other \in ListedRegistered :
                          /\ CleanupWlid(other) = CleanupWlid(pod)
                          /\ c \in DOMAIN other.statuses
                          /\ other.statuses[c].running
                          /\ other.statuses[c].imageID
                                = wlidsToContainerToImageIDMap[CleanupWlid(pod)][c]
                    \/ <<CleanupWlid(pod), c,
                         wlidsToContainerToImageIDMap[CleanupWlid(pod)][c]>> \in cycleWrites
        /\ \A w \in DOMAIN wlidsToContainerToImageIDMap :
              \/ \E pod \in ListedRegistered : CleanupWlid(pod) = w
              \/ \E t \in cycleWrites : t[1] = w

\* C4 happens: a cycle over a listing with two registered pods of one workload
\* and a pod that is skipped completes, the map rebuilt from the listing alone.
C4_Witness ==
    /\ CycleComplete
    /\ cycleWrites = {}
    /\ Cardinality(ListedRegistered) >= 2
    /\ ListedRunning # ListedRegistered
    /\ DOMAIN wlidsToContainerToImageIDMap # {}

(***************************************************************************)
(* Properties of the pod watch loop.                                       *)
(***************************************************************************)
\* a subscription is opened after an earlier one ended
Resubscribes ==
    /\ podPc = "getPodWatcher"
    /\ podsWatch.state = "stopped"
    /\ podPc' = "handlePodWatcher"

\* C8: every pod watch subscription opened after the first one uses a token
\* obtained from a listing made since the previous subscription ended, never
\* the token the previous subscription was opened with.
C8_FreshToken ==
    [][Resubscribes => podsWatch'.rv # podsWatch.rv]_vars

(***************************************************************************)
(* Properties of the storage watch engines and their handlers.             *)
(***************************************************************************)
\* the engine is blocked sending an event to the handler
EngineBlocked == engPc = "inputEvents<-"

\* the handler is blocked sending an error or a command to the engine
HandlerBlocked == hPc \in {"errorCh<-", "producedCommands<-"}

\* C2: the engine, blocked forwarding an event to the handler, and the handler,
\* blocked sending an error or a command to the engine, are never both blocked
\* on each other.
C2_NeverBothBlocked == ~(EngineBlocked /\ HandlerBlocked)

\* C5: whenever the current stream closes, the engine makes another subscribe
\* attempt.
C5_ReconnectLiveness ==
    (lastOp.op = "streamClosed") ~> (lastOp.op = "getWatcher")

\* what the engines do: a closed stream is followed by a subscribe attempt unless
\* the engine and the handler have blocked on each other
ReconnectUnlessBlocked ==
    (lastOp.op = "streamClosed") ~>
        (lastOp.op = "getWatcher" \/ (EngineBlocked /\ HandlerBlocked))

\* the handler has handled an event of the engine's kind
Handled(k) == kind = k /\ hEvent # NoEvent

AddedOrModified(e) == e.supported /\ e.type \in {"ADDED", "MODIFIED"}

\* C6: for an Added or Modified SBOM event whose name is absent from iwMap the
\* handler issues exactly one delete, for that name, and produces no command;
\* if the name is in iwMap it issues no delete; for a Deleted event it does
\* nothing.
C6_SBOMGarbageCollection ==
    Handled("SBOM") =>
        /\ hResult.cmds = <<>>
        /\ (AddedOrModified(hEvent) /\ hEvent.name \notin DOMAIN iwMap)
              => hResult.deletes = <<hEvent.name>>
        /\ (AddedOrModified(hEvent) /\ hEvent.name \in DOMAIN iwMap)
              => hResult.deletes = <<>>
        /\ (hEvent.supported /\ hEvent.type = "DELETED")
              => hResult = HandlerResult(<<>>, <<>>, <<>>, <<>>)

\* C6 happens: an Added or Modified SBOM of an unknown image hash was handled
\* while iwMap holds other hashes.
C6_Witness ==
    /\ Handled("SBOM")
    /\ AddedOrModified(hEvent)
    /\ iwMap # EmptyMap
    /\ hEvent.name \notin DOMAIN iwMap
    /\ hResult.deletes = <<hEvent.name>>

InInstanceIDs(name) == \E i \in 1..Len(hashedInstanceIDs) : hashedInstanceIDs[i] = name

\* the containers of a workload in wlidsToContainerToImageIDMap, none if absent
ContainersOf(wlid) ==
    IF wlid \in DOMAIN wlidsToContainerToImageIDMap
    THEN wlidsToContainerToImageIDMap[wlid] ELSE EmptyMap

\* C9: for an Added or Modified filtered SBOM, a name absent from
\* hashedInstanceIDs gives one delete and no command; a present name with a wlid
\* annotation gives exactly one command, for that wlid, with the containers
\* wlidsToContainerToImageIDMap holds for it, and no delete; a present name
\* without the annotation gives an error, no delete and no command.
C9_FilteredSBOMHandler ==
    (Handled("SBOMFiltered") /\ AddedOrModified(hEvent)) =>
        /\ ~InInstanceIDs(hEvent.name)
              => hResult.deletes = <<hEvent.name>> /\ hResult.cmds = <<>>
        /\ (InInstanceIDs(hEvent.name) /\ hEvent.ann.ok)
              => /\ hResult.deletes = <<>>
                 /\ hResult.errs = <<>>
                 /\ Len(hResult.cmds) = 1
                 /\ hResult.cmds[1].wlid = hEvent.ann.wlid
                 /\ hResult.cmds[1].containers = ContainersOf(hEvent.ann.wlid)
        /\ (InInstanceIDs(hEvent.name) /\ ~hEvent.ann.ok)
              => /\ hResult.deletes = <<>>
                 /\ hResult.cmds = <<>>
                 /\ hResult.errs # <<>>

\* C9 happens: a filtered SBOM of a known instance ID, annotated with a workload
\* of the map, was handled and the engine took its command.
C9_Witness ==
    /\ Handled("SBOMFiltered")
    /\ AddedOrModified(hEvent)
    /\ InInstanceIDs(hEvent.name)
    /\ hEvent.ann.ok
    /\ hEvent.ann.wlid \in DOMAIN wlidsToContainerToImageIDMap
    /\ lastOp.op = "AddCommandToChannel"
    /\ Len(lastOp.cmds) = 1

\* C10: for an Added or Modified vulnerability manifest, a relevancy-tracked one
\* is deleted iff its name is absent from hashedInstanceIDs and another one iff
\* its name is absent from iwMap; a Deleted event causes no delete; the handler
\* never produces a command.
C10_VulnerabilityManifestHandler ==
    Handled("VulnerabilityManifest") =>
        /\ hResult.cmds = <<>>
        /\ hEvent.type = "DELETED" => hResult.deletes = <<>>
        /\ (AddedOrModified(hEvent) /\ hEvent.withRelevancy)
              => /\ hResult.deletes \in {<<>>, <<hEvent.name>>}
                 /\ hResult.deletes # <<>> <=> ~InInstanceIDs(hEvent.name)
        /\ (AddedOrModified(hEvent) /\ ~hEvent.withRelevancy)
              => /\ hResult.deletes \in {<<>>, <<hEvent.name>>}
                 /\ hResult.deletes # <<>> <=> hEvent.name \notin DOMAIN iwMap

\* C10 happens: a relevancy-tracked manifest named as a known image hash, but
\* not as a known instance ID, was handled and deleted.
C10_Witness ==
    /\ Handled("VulnerabilityManifest")
    /\ AddedOrModified(hEvent)
    /\ hEvent.withRelevancy
    /\ hEvent.name \in DOMAIN iwMap
    /\ ~InInstanceIDs(hEvent.name)
    /\ hResult.deletes = <<hEvent.name>>

\* C11: when the storage delete of an orphaned artifact fails, the handler reports
\* the failure as an error, which the engine logs.
C11_FailedDeleteReported ==
    (hEvent # NoEvent /\ hResult.failed # <<>>) => hResult.errs # <<>>

\* what the handlers do: only the SBOM handler reports a failed delete; no handler
\* calls Delete a second time for the event
FailedDeleteReportedBySBOMOnly ==
    (hEvent # NoEvent /\ hResult.failed # <<>>) =>
        /\ hResult.errs # <<>> <=> kind = "SBOM"
        /\ Len(hResult.deletes) = 1

(***************************************************************************)
(* Properties of the cleanup routine running beside the pod pipeline.      *)
(***************************************************************************)
\* cleanUpIDs has cleared iwMap and has not yet cleared
\* wlidsToContainerToImageIDMap
HalfReset == cleanPc \in {"cleanUpInstanceIDs", "cleanUpWlidsToContainerToImageIDMap"}

\* the step handles a pod event that reads the store: it passes the filter and
\* its parent workload resolves
PodStepReadsStore ==
    /\ PodStep
    /\ PassesFilter(lastOp'.ev)
    /\ ~lastOp'.ev.pod.owner.err

\* C12: no pod-pipeline step observes or modifies the store in a state where the
\* current cleanup cycle has reset one of the three structures and not yet
\* another.
C12_AtomicReset == [][PodStepReadsStore => ~HalfReset]_vars

\* what such a step can do: with iwMap cleared and the workload still in
\* wlidsToContainerToImageIDMap, a pod whose images were all registered before
\* the cycle is taken for a new image and a command is pushed for it
HalfResetCommand ==
    /\ HalfReset
    /\ lastOp.op = "handlePodWatcher"
    /\ lastOp.cmds # <<>>
    /\ PipelineWlid(lastOp.ev.pod) \in DOMAIN wlidsToContainerToImageIDMap
    /\ podsList # <<>>

(***************************************************************************)
(* The accesses to wh.hashedInstanceIDs and wh.instanceIDsMutex, each task *)
(* taken one statement at a time.  A task stays inside an access for a     *)
(* while: it enters (taking the lock, if the code takes one there), and    *)
(* later returns (the write is done, the lock released).                   *)
(***************************************************************************)
\* the hashed instance IDs the pod pipeline and buildIDs add
HashedIDs == {"i-d1-c1", "i-d2-c1"}

\* sync.RWMutex
CanLock(m) == m.w = "none" /\ m.r = {}
Lock(m, t) == [m EXCEPT !.w = t]
Unlock(m, t) == [m EXCEPT !.w = "none"]
CanRLock(m) == m.w = "none"
RLock(m, t) == [m EXCEPT !.r = @ \cup {t}]
RUnlock(m, t) == [m EXCEPT !.r = @ \ {t}]

Idle(t) == idsAccess[t] = NoAccess

lockFrame == UNCHANGED <<iwMap, wlidsToContainerToImageIDMap, podVars, cleanVars, lastOp,
                         cycleWrites, engVars>>

\* addToInstanceIDsList, called by handlePodWatcher and by buildIDs:
\* wh.instanceIDsMutex.Lock()
AddToInstanceIDsListLock(t, h) ==
    /\ t \in {"handlePodWatcher", "cleanUp"}
    /\ Idle(t)
    /\ CanLock(instanceIDsMutex)
    /\ instanceIDsMutex' = Lock(instanceIDsMutex, t)
    /\ idsAccess' = [idsAccess EXCEPT ![t] = Access("append", h)]
    /\ UNCHANGED hashedInstanceIDs
    /\ lockFrame

\* addToInstanceIDsList: Contains, append, and the deferred Unlock
AddToInstanceIDsListReturn(t) ==
    /\ idsAccess[t].op = "append"
    /\ hashedInstanceIDs' = addToInstanceIDsList(hashedInstanceIDs, idsAccess[t].h)
    /\ instanceIDsMutex' = Unlock(instanceIDsMutex, t)
    /\ idsAccess' = [idsAccess EXCEPT ![t] = NoAccess]
    /\ lockFrame

\* cleanUpInstanceIDs: wh.instanceIDsMutex.Lock()
CleanUpInstanceIDsLock ==
    /\ Idle("cleanUp")
    /\ CanLock(instanceIDsMutex)
    /\ instanceIDsMutex' = Lock(instanceIDsMutex, "cleanUp")
    /\ idsAccess' = [idsAccess EXCEPT !["cleanUp"] = Access("reset", "")]
    /\ UNCHANGED hashedInstanceIDs
    /\ lockFrame

\* cleanUpInstanceIDs: wh.hashedInstanceIDs = []string{}, Unlock
CleanUpInstanceIDsReturn ==
    /\ idsAccess["cleanUp"].op = "reset"
    /\ hashedInstanceIDs' = cleanUpInstanceIDs(hashedInstanceIDs)
    /\ instanceIDsMutex' = Unlock(instanceIDsMutex, "cleanUp")
    /\ idsAccess' = [idsAccess EXCEPT !["cleanUp"] = NoAccess]
    /\ lockFrame

\* listInstanceIDs, called by HandleVulnerabilityManifestEvents:
\* wh.instanceIDsMutex.RLock()
ListInstanceIDsRLock ==
    /\ Idle("HandleVulnerabilityManifestEvents")
    /\ CanRLock(instanceIDsMutex)
    /\ instanceIDsMutex' = RLock(instanceIDsMutex, "HandleVulnerabilityManifestEvents")
    /\ idsAccess' = [idsAccess EXCEPT !["HandleVulnerabilityManifestEvents"] =
                                          Access("read", "")]
    /\ UNCHANGED hashedInstanceIDs
    /\ lockFrame

\* listInstanceIDs: return wh.hashedInstanceIDs, and the deferred RUnlock
ListInstanceIDsReturn ==
    /\ idsAccess["HandleVulnerabilityManifestEvents"].op = "read"
    /\ instanceIDsMutex' = RUnlock(instanceIDsMutex, "HandleVulnerabilityManifestEvents")
    /\ idsAccess' = [idsAccess EXCEPT !["HandleVulnerabilityManifestEvents"] = NoAccess]
    /\ UNCHANGED hashedInstanceIDs
    /\ lockFrame

\* HandleSBOMFilteredEvents: slices.Contains(wh.hashedInstanceIDs, ...) starts
\* reading the field; no lock is taken
FilteredContainsBegin(h) ==
    /\ Idle("HandleSBOMFilteredEvents")
    /\ idsAccess' = [idsAccess EXCEPT !["HandleSBOMFilteredEvents"] = Access("read", h)]
    /\ UNCHANGED <<hashedInstanceIDs, instanceIDsMutex>>
    /\ lockFrame

\* HandleSBOMFilteredEvents: slices.Contains returns
FilteredContainsEnd ==
    /\ idsAccess["HandleSBOMFilteredEvents"].op = "read"
    /\ idsAccess' = [idsAccess EXCEPT !["HandleSBOMFilteredEvents"] = NoAccess]
    /\ UNCHANGED <<hashedInstanceIDs, instanceIDsMutex>>
    /\ lockFrame

LockNext ==
    \/ \E t \in Tasks, h \in HashedIDs : AddToInstanceIDsListLock(t, h)
    \/ \E t \in Tasks : AddToInstanceIDsListReturn(t)
    \/ CleanUpInstanceIDsLock
    \/ CleanUpInstanceIDsReturn
    \/ ListInstanceIDsRLock
    \/ ListInstanceIDsReturn
    \/ \E h \in HashedIDs : FilteredContainsBegin(h)
    \/ FilteredContainsEnd

LockSpec == Init /\ [][LockNext]_vars

\* the task holds the lock its access needs: any lock for a read, the write lock
\* for a write
HoldsLockFor(t) ==
    IF idsAccess[t].op = "read"
    THEN instanceIDsMutex.w = t \/ t \in instanceIDsMutex.r
    ELSE instanceIDsMutex.w = t

Writing(t) == idsAccess[t].op \in {"append", "reset"}

\* C13: every read and every write of hashedInstanceIDs happens while the task
\* holds instanceIDsMutex (read lock for a read, write lock for a write), and no
\* reader is inside its read while a writer is inside its write.
C13_LockDiscipline ==
    /\ \A t \in Tasks : ~Idle(t) => HoldsLockFor(t)
    /\ \A t, u \in Tasks : (t # u /\ Writing(t)) => Idle(u)

\* what the code keeps: the tasks other than HandleSBOMFilteredEvents hold the
\* lock for every access and never overlap a writer
LockDisciplineOfTheOthers ==
    /\ \A t \in Tasks \ {"HandleSBOMFilteredEvents"} : ~Idle(t) => HoldsLockFor(t)
    /\ \A t, u \in Tasks \ {"HandleSBOMFilteredEvents"} : (t # u /\ Writing(t)) => Idle(u)

(***************************************************************************)
(* Further properties of the pod pipeline.                                 *)
(***************************************************************************)
\* the per-container instance identifiers of the pod, none when they cannot be
\* generated
InstanceIDsOf(pod) == IF pod.iidOk THEN {pod.iids[i] : i \in 1..Len(pod.iids)} ELSE {}

\* C14: after a pod event that passes the filter and whose parent workload
\* resolves is handled, every instance identifier of the pod is in
\* hashedInstanceIDs, also when the event is a duplicate observation.
C14_RecordIdentity ==
    [][PodStepReadsStore =>
          \A id \in InstanceIDsOf(lastOp'.ev.pod) :
              \E i \in 1..Len(hashedInstanceIDs') : hashedInstanceIDs'[i] = id]_vars

\* what the code does: the identifiers are recorded whenever a command is pushed
RecordedWhenCommand ==
    [][(PodStepReadsStore /\ lastOp'.cmds # <<>>) =>
          \A id \in InstanceIDsOf(lastOp'.ev.pod) :
              \E i \in 1..Len(hashedInstanceIDs') : hashedInstanceIDs'[i] = id]_vars

\* the step handles a first sighting: the event passes the filter, its parent
\* resolves, none of its images is new and the workload is not a key of
\* wlidsToContainerToImageIDMap
FirstSighting ==
    /\ PodStepReadsStore
    /\ NewContainers(lastOp'.ev.pod, iwMap) = {}
    /\ PipelineWlid(lastOp'.ev.pod) \notin DOMAIN wlidsToContainerToImageIDMap

\* the containers of the pod that report Running
RunningOf(pod) == {c \in DOMAIN pod.statuses : pod.statuses[c].running}

\* after the step every running container of the pod is registered with its
\* image under the pod's workload
AllRegisteredAfter(pod) ==
    \A c \in RunningOf(pod) :
        /\ PipelineWlid(pod) \in DOMAIN wlidsToContainerToImageIDMap'
        /\ c \in DOMAIN wlidsToContainerToImageIDMap'[PipelineWlid(pod)]
        /\ wlidsToContainerToImageIDMap'[PipelineWlid(pod)][c] = pod.statuses[c].imageID

\* C15: a first sighting registers every (container, image) pair of the pod under
\* the workload and pushes exactly one command, whose containers are the pod's
\* full current set.
C15_FirstSighting ==
    [][FirstSighting =>
          /\ AllRegisteredAfter(lastOp'.ev.pod)
          /\ lastOp'.cmds = <<CommandFor(lastOp'.ev.pod, RunningOf(lastOp'.ev.pod))>>]_vars

\* what the code does: the pairs are always registered, and the command is pushed
\* when the pod's instance IDs can be generated, and only then
FirstSightingWhenInstanceIDs ==
    [][FirstSighting =>
          /\ AllRegisteredAfter(lastOp'.ev.pod)
          /\ lastOp'.cmds =
                IF lastOp'.ev.pod.iidOk
                THEN <<CommandFor(lastOp'.ev.pod, RunningOf(lastOp'.ev.pod))>>
                ELSE <<>>]_vars

\* the step is the reset of hashedInstanceIDs by cleanUpInstanceIDs, which a
\* cleanup cycle passes once, between clearing iwMap and clearing
\* wlidsToContainerToImageIDMap
InstanceIDsReset ==
    /\ cleanPc = "cleanUpInstanceIDs"
    /\ cleanPc' = "cleanUpWlidsToContainerToImageIDMap"
    /\ hashedInstanceIDs' = <<>>

\* hashedInstanceIDs' keeps every element of hashedInstanceIDs, in place
InstanceIDsKept ==
    /\ Len(hashedInstanceIDs') >= Len(hashedInstanceIDs)
    /\ \A i \in 1..Len(hashedInstanceIDs) : hashedInstanceIDs'[i] = hashedInstanceIDs[i]

\* C16: no step removes an element from hashedInstanceIDs except the reset of the
\* cleanup routine, which a cleanup cycle takes once.
C16_InstanceIDsMonotone == [][InstanceIDsKept \/ InstanceIDsReset]_vars

\* C16 happens: after the reset of a cycle, the rebuild and the pod pipeline have
\* added identifiers again.
C16_Witness ==
    /\ cleanPc = "buildIDs"
    /\ cleanIdx > 1
    /\ Len(hashedInstanceIDs) >= 3
    /\ lastOp.op = "handlePodWatcher"
    /\ lastOp.cmds # <<>>

\* the event is dropped: it is not a Modified event, or its pod is not in Running
\* phase, or the pod is not found by the point read, or its parent workload
\* cannot be resolved
Dropped(e) ==
    \/ e.type # "MODIFIED"
    \/ e.pod.phase # "Running"
    \/ ~e.exists
    \/ e.pod.owner.err

\* C17: handling a dropped pod event leaves iwMap, wlidsToContainerToImageIDMap
\* and hashedInstanceIDs unchanged, pushes no command, and leaves the pod loop
\* receiving from the same watcher.
C17_DroppedEventsNoEffect ==
    [][(PodStep /\ Dropped(lastOp'.ev)) =>
          /\ iwMap' = iwMap
          /\ wlidsToContainerToImageIDMap' = wlidsToContainerToImageIDMap
          /\ hashedInstanceIDs' = hashedInstanceIDs
          /\ lastOp'.cmds = <<>>
          /\ podPc' = "handlePodWatcher"
          /\ podsWatch' = podsWatch]_vars

\* C17 happens: a Modified event of a Running pod that no longer exists, whose
\* image is not in iwMap, was handled and dropped.
C17_Witness ==
    /\ lastOp.op = "handlePodWatcher"
    /\ lastOp.ev.type = "MODIFIED"
    /\ lastOp.ev.pod.phase = "Running"
    /\ ~lastOp.ev.exists
    /\ \E c \in DOMAIN lastOp.ev.pod.statuses :
          /\ lastOp.ev.pod.statuses[c].running
          /\ lastOp.ev.pod.statuses[c].imageID[2] \notin DOMAIN iwMap
    /\ podPc = "handlePodWatcher"

(***************************************************************************)
(* The storage handlers running beside the cleanup routine.  The cluster   *)
(* does not change: every listing of the cleanup routine is the one the    *)
(* store was built from.  A handler's loop iteration is taken whole, the   *)
(* engine receiving what the handler sends.                                *)
(***************************************************************************)
\* cleanUp: ListPods succeeds and lists the pods the store was built from
CleanUpListPodsUnchanged ==
    \E list \in Listings :
        /\ NewWatchHandler(list) = Store
        /\ CleanUpListPods(list)

\* one iteration of the handler's loop on the store as it is now
HandleStorageEvent(event, deleteErr) ==
    /\ hPc = "range"
    /\ hEvent' = event
    /\ hResult' = HandleEvents(kind, Store, event, deleteErr)
    /\ lastOp' = EngOp("HandleEvents", hResult'.cmds)
    /\ UNCHANGED <<kind, watcher, eventsCh, pending, engPc, engEvent, hPc>>
    /\ UNCHANGED <<storeVars, podVars, cleanVars, cycleWrites, lockVars>>

GCNext ==
    \/ CleanUpListPodsUnchanged
    \/ CleanUpListPodsErr
    \/ CleanUpIDsImageHashes
    \/ CleanUpIDsInstanceIDs
    \/ CleanUpIDsWlids
    \/ BuildIDsPod
    \/ CleanUpReturn
    \/ \E event \in EventsOf(kind), deleteErr \in BOOLEAN : HandleStorageEvent(event, deleteErr)

GCSpec == EngineInit /\ [][GCNext]_vars

\* the image hashes of the running containers of the listed pods that were
\* registered before the cycle and are registered again by its rebuild
ListedHashes ==
    UNION {{pod.statuses[c].imageID[2] : c \in RunningOf(pod)} : pod \in ListedRegistered}

\* the instance identifiers of those pods
ListedInstanceIDs == UNION {InstanceIDsOf(pod) : pod \in ListedRegistered}

\* the artifact of the event belongs to a container of such a pod
BelongsToListedPod(k, e) ==
    IF k = "SBOMFiltered" \/ (k = "VulnerabilityManifest" /\ e.withRelevancy)
    THEN e.name \in ListedInstanceIDs
    ELSE e.name \in ListedHashes

\* C18: a handler never issues a storage delete for an artifact whose image hash,
\* or instance identifier, belongs to a container of a pod that is Running in
\* the cluster and was registered before the current cleanup cycle started, not
\* even between the cycle's reset and the end of its rebuild.
C18_NoFalseGarbageCollection ==
    [][(lastOp'.op = "HandleEvents" /\ hResult'.deletes # <<>>)
          => ~BelongsToListedPod(kind, hEvent')]_vars

\* the engine has a watcher whose stream is open
Connected == watcher = "set" /\ eventsCh = "open"

\* C19: a subscription that is connected and whose stream has not closed is never
\* stopped and replaced: no subscribe attempt is made while it is connected.
C19_NoSpuriousReconnect == [][Connected => lastOp'.op # "getWatcher"]_vars

\* what the engines do: a closed stream can leave more than one down-notification
\* pending, and those left over are taken after the stream has been reopened
PendingWhileConnected == Connected /\ pending > 0

\* no cleanup cycle is between its reset and the end of its rebuild
OutsideCleanupWindow == cleanPc = "sleep"

\* C20: outside a cleanup cycle's reset/rebuild window, every workload W and
\* container c with wlidsToContainerToImageIDMap[W][c] = ref has W in
\* iwMap[hash of ref].
C20_CrossIndexConsistency ==
    OutsideCleanupWindow =>
        \A w \in DOMAIN wlidsToContainerToImageIDMap :
            \A c \in DOMAIN wlidsToContainerToImageIDMap[w] :
                /\ wlidsToContainerToImageIDMap[w][c][2] \in DOMAIN iwMap
                /\ w \in iwMap[wlidsToContainerToImageIDMap[w][c][2]]

\* what the code keeps: the hash of every registered image is a key of iwMap
RegisteredHashesKnown ==
    OutsideCleanupWindow =>
        \A w \in DOMAIN wlidsToContainerToImageIDMap :
            \A c \in DOMAIN wlidsToContainerToImageIDMap[w] :
                wlidsToContainerToImageIDMap[w][c][2] \in DOMAIN iwMap

\* the cleanup routine is at time.Sleep: its next cycle starts after the interval
CleanUpSleeping == cleanPc = "sleep"

\* C21: when the pod listing at the start of a cleanup cycle fails, the cycle
\* resets nothing: iwMap, wlidsToContainerToImageIDMap and hashedInstanceIDs are
\* left as they were, no command is emitted, and the routine is back at its sleep,
\* from where the next cycle starts.
C21_CleanupListingFailure ==
    [][lastOp'.op = "ListPodsErr" =>
          /\ storeVars' = storeVars
          /\ lastOp'.cmds = <<>>
          /\ CleanUpSleeping']_vars

\* a listing has failed while all three structures held entries
C21_Witness ==
    /\ lastOp.op = "ListPodsErr"
    /\ DOMAIN iwMap # {}
    /\ DOMAIN wlidsToContainerToImageIDMap # {}
    /\ hashedInstanceIDs # <<>>

\* every command of the sequence names at least one container
CommandsNonEmpty(cmds) == \A i \in 1..Len(cmds) : DOMAIN cmds[i].containers # {}

\* the commands handed to utils.AddCommandToChannel by the pod pipeline
PodCommandsNonEmpty == CommandsNonEmpty(lastOp.cmds)

\* the commands sent on producedCommands by HandleSBOMFilteredEvents
FilteredCommandsNonEmpty == kind = "SBOMFiltered" => CommandsNonEmpty(hResult.cmds)

\* C22: every command pushed to the outbound queue, by the pod pipeline or by the
\* filtered-SBOM handler, has a non-empty containers map: a Running-phase pod with
\* no running container, and a filtered SBOM whose annotated workload is not a key
\* of wlidsToContainerToImageIDMap, produce no command.
C22_NonEmptyScanCommands == PodCommandsNonEmpty /\ FilteredCommandsNonEmpty

\* what the pod pipeline keeps: the command of a pod that has a running container
\* names at least one container
RunningPodCommandsNonEmpty ==
    [][(PodStep /\ RunningContainers(lastOp'.ev.pod) # {})
          => CommandsNonEmpty(lastOp'.cmds)]_vars

\* what the filtered-SBOM handler keeps: the command for an annotated workload that
\* is a key of wlidsToContainerToImageIDMap names at least one container
RegisteredWorkloadCommandsNonEmpty ==
    (Handled("SBOMFiltered") /\ hEvent.ann.ok
        /\ hEvent.ann.wlid \in DOMAIN wlidsToContainerToImageIDMap)
        => CommandsNonEmpty(hResult.cmds)

=============================================================================
